---- MODULE Spec2Model ----
(***************************************************************************)
(* Model of the userns-chroot AppRun launcher                              *)
(* (src/appruns/userns-chroot/main.c).                                     *)
(*                                                                         *)
(* The launcher is one sequential process.  pc is its position in          *)
(* main/child_main; trace is the list of the calls it has made so far,     *)
(* each with the source line that makes it, its arguments and whether it   *)
(* succeeded.  The results of the                                          *)
(* system calls are inputs, drawn with \E in the action that makes the     *)
(* call.  C strings that the code scans character by character (the        *)
(* LD_LIBRARY_PATH value, library paths) are sequences of one-character    *)
(* strings; paths that are only formatted and passed on are strings.       *)
(***************************************************************************)
EXTENDS Integers, Sequences, FiniteSets, TLC

VARIABLES
  pc,          \* position in main/child_main, or "exited"/"execed"/"crashed"
  exitStatus,  \* the set of the status passed to exit(), empty while running
  appdir,      \* static const char *appdir
  mountroot,   \* static const char *mountroot
  uid,         \* uid_t uid in child_main, as <<high 16 bits, low 16 bits>>
  gid,         \* gid_t gid in child_main, same representation
  env,         \* getenv("LD_LIBRARY_PATH"): Null or Some(value)
  env0,        \* value of LD_LIBRARY_PATH when the launcher was started
  ldin,        \* what extend_ld_library_path will find: see LdWorld
  ldout,       \* what extend_ld_library_path did: see ld_run
  conf,        \* the linker-configuration parser: see ConfStart
  rootEntries, \* the names readdir will return for the real root, in order
  rootIdx,     \* how many of them readdir has returned
  rootdir,     \* DIR *rootdir: "unset", "open" or "NULL"
  procCwd,     \* the working directory of the process (a path string)
  procRoot,    \* the root directory of the process
  cwd,         \* char cwd[PATH_MAX] in child_main
  exe,         \* char exe[] in child_main
  clonens,     \* int clonens in child_main, as the set of its flags
  trace        \* calls made so far

vars == <<pc, exitStatus, appdir, mountroot, uid, gid, env, env0, ldin, ldout, conf,
          rootEntries, rootIdx, rootdir, procCwd, procRoot, cwd, exe, clonens,
          trace>>

-----------------------------------------------------------------------------
(* Bounds *)

MaxRootEntries == 3   \* entries in the listing of the real root
MaxEnvLen == 3        \* characters in the initial LD_LIBRARY_PATH
MaxLines == 2         \* lines the library-cache lister prints
MaxDirectives == 2    \* lines of the top-level linker configuration file

(* Program constants *)

EXIT_EXECERROR == 127
ELFCLASS32 == 1
ELFCLASS64 == 2

\* exitStatus while exit has not been called.
NoStatus == {}

\* A char * that may be NULL (an environment variable that may be unset).
Null == [set |-> FALSE, val |-> <<>>]
Some(s) == [set |-> TRUE, val |-> s]

-----------------------------------------------------------------------------
(* 32-bit ids and their formatting *)

Half == 2^16

\* The non-negative values TLC can hold stop at 2^31-1, so a uid_t is kept as
\* its two 16-bit halves.
U32(hi, lo) == <<hi, lo>>

\* printf("%d") of a 32-bit argument: the bits read as a signed int.
FormatD(u) ==
  IF u[1] >= 32768
    THEN ToString((u[1] - Half) * Half + u[2])
    ELSE ToString(u[1] * Half + u[2])

\* The decimal numeral of the unsigned value (what "%u" would print).
FormatU(u) ==
  IF u[1] < 32768
    THEN ToString(u[1] * Half + u[2])
    ELSE LET qh == u[1] \div 10
             rh == u[1] % 10
             ql == (rh * Half + u[2]) \div 10
             r  == (rh * Half + u[2]) % 10
         IN  ToString(qh * Half + ql) \o ToString(r)

\* The text vdprintf produces for "%d %d 1\n".
MapLine(a, b) == FormatD(a) \o " " \o FormatD(b) \o " 1\n"

-----------------------------------------------------------------------------
(* Calls recorded in trace *)

\* A call: the line of child_main or main that makes it, the function, its
\* arguments and whether it succeeded.
Ev(line, op, src, dst, ok) ==
  [line |-> line, op |-> op, src |-> src, dst |-> dst, ok |-> ok]

\* die_if without its exit.
die_if_never(cond, next) == [pc |-> next, status |-> NoStatus]

\* die_if: exit(EXIT_EXECERROR) when cond holds, otherwise go on at next.
die_if(cond, next) ==
  [pc |-> IF cond THEN "exited" ELSE next,
   status |-> IF cond THEN {EXIT_EXECERROR} ELSE NoStatus]

\* The control part of a step that ends in die_if(cond, ...).
Goto(d) == pc' = d.pc /\ exitStatus' = d.status

-----------------------------------------------------------------------------
(* C strings as sequences of characters *)

\* strchr(s, c): the index of the first c in s, 0 when there is none.
RECURSIVE strchr(_, _)
strchr(s, c) ==
  IF s = <<>> THEN 0
  ELSE IF Head(s) = c THEN 1
  ELSE LET r == strchr(Tail(s), c) IN IF r = 0 THEN 0 ELSE r + 1

\* The index of the last c in s, 0 when there is none.
RECURSIVE strrchr(_, _)
strrchr(s, c) ==
  IF s = <<>> THEN 0
  ELSE IF s[Len(s)] = c THEN Len(s)
  ELSE strrchr(SubSeq(s, 1, Len(s) - 1), c)

\* s without its trailing '/' characters.
RECURSIVE StripSlashes(_)
StripSlashes(s) ==
  IF s # <<>> /\ s[Len(s)] = "/" THEN StripSlashes(SubSeq(s, 1, Len(s) - 1)) ELSE s

\* dirname(3).
dirname(path) ==
  LET p == StripSlashes(path)
      k == strrchr(p, "/")
      d == StripSlashes(SubSeq(p, 1, k))
  IN  IF path = <<>> THEN <<".">>
      ELSE IF p = <<>> THEN <<"/">>
      ELSE IF k = 0 THEN <<".">>
      ELSE IF d = <<>> THEN <<"/">>
      ELSE d

-----------------------------------------------------------------------------
(* struct string_array *)

\* string_array_push, when its allocations succeed.
string_array_push(arr, value) == Append(arr, value)

string_array_contains(arr, value) == \E i \in 1..Len(arr) : arr[i] = value

-----------------------------------------------------------------------------
(* ELF files and read_elf_id *)

EI_NIDENT == 16
SELFMAG == 4
SizeofElf32Ehdr == 52
SizeofElf64Ehdr == 64

\* A file as read_elf_id sees it: whether open succeeds, its size in bytes,
\* whether it starts with ELFMAG, the byte ident[EI_CLASS], the e_machine
\* field and whether lseek succeeds.  (The machines used are EM_386 = 3,
\* EM_X86_64 = 62 and EM_AARCH64 = 183.)
ElfFile(open, size, magic, class, machine, seek) ==
  [open |-> open, size |-> size, magic |-> magic, class |-> class,
   machine |-> machine, seek |-> seek]

\* What read_elf_id(path, &id) leaves: its return value and the two fields
\* of id.
ElfId(class, machine) == [rc |-> 0, elf_class |-> class, machine |-> machine]
NoElfId == [rc |-> -1, elf_class |-> 0, machine |-> 0]

\* struct elf_id id = {0};
ZeroId == [elf_class |-> 0, machine |-> 0]

\* read_elf_id that stores the class before it reads the full header.
read_elf_id_early_class(file, out) ==
  LET fail == [rc |-> -1, elf_class |-> out.elf_class, machine |-> out.machine]
      hdr == IF file.class = ELFCLASS32 THEN SizeofElf32Ehdr ELSE SizeofElf64Ehdr
  IN  IF ~file.open \/ file.size < EI_NIDENT \/ ~file.magic \/ ~file.seek THEN fail
      ELSE IF file.class \notin {ELFCLASS32, ELFCLASS64} THEN fail
      ELSE IF file.size < hdr THEN [rc |-> -1, elf_class |-> file.class, machine |-> out.machine]
      ELSE ElfId(file.class, file.machine)

\* read_elf_id(path, out) for the file at path and the *out it is given.
read_elf_id(file, out) ==
  LET fail == [rc |-> -1, elf_class |-> out.elf_class, machine |-> out.machine]
  IN  IF ~file.open THEN fail
      ELSE IF file.size < EI_NIDENT THEN fail
      ELSE IF ~file.magic THEN fail
      ELSE IF ~file.seek THEN fail
      ELSE IF file.class = ELFCLASS32 THEN
        IF file.size < SizeofElf32Ehdr THEN fail ELSE ElfId(ELFCLASS32, file.machine)
      ELSE IF file.class = ELFCLASS64 THEN
        IF file.size < SizeofElf64Ehdr THEN fail ELSE ElfId(ELFCLASS64, file.machine)
      ELSE fail

\* Every file within the sizes around the three lengths read_elf_id reads.
ElfFiles ==
  { f \in { ElfFile(o, z, m, c, e, k) :
               o \in BOOLEAN, z \in {0, 10, 16, 51, 52, 63, 64}, m \in BOOLEAN,
               c \in {0, ELFCLASS32, ELFCLASS64, 3}, e \in {3, 62}, k \in BOOLEAN } :
      f.magic => f.size >= SELFMAG }

\* The files the search-path resolution is explored with.
Missing == ElfFile(FALSE, 0, FALSE, 0, 0, TRUE)
NotElf == ElfFile(TRUE, 64, FALSE, 0, 0, TRUE)
X64 == ElfFile(TRUE, 64, TRUE, ELFCLASS64, 62, TRUE)
I386 == ElfFile(TRUE, 64, TRUE, ELFCLASS32, 3, TRUE)
A64 == ElfFile(TRUE, 64, TRUE, ELFCLASS64, 183, TRUE)
Trunc64 == ElfFile(TRUE, 52, TRUE, ELFCLASS64, 62, TRUE)

-----------------------------------------------------------------------------
(* The library-cache lister *)

\* strstr(s, t): the index in s of the first occurrence of t, 0 when there
\* is none.
RECURSIVE strstr(_, _)
strstr(s, t) ==
  IF Len(s) < Len(t) THEN 0
  ELSE IF SubSeq(s, 1, Len(t)) = t THEN 1
  ELSE LET r == strstr(Tail(s), t) IN IF r = 0 THEN 0 ELSE r + 1

isspace(c) == c \in {" ", "\t", "\n", "\r", "\f"}

RECURSIVE SkipLeading(_)
SkipLeading(s) == IF s # <<>> /\ isspace(Head(s)) THEN SkipLeading(Tail(s)) ELSE s

RECURSIVE CutTrailing(_)
CutTrailing(s) ==
  IF s # <<>> /\ isspace(s[Len(s)]) THEN CutTrailing(SubSeq(s, 1, Len(s) - 1)) ELSE s

\* trim_in_place(str)
trim_in_place(str) == CutTrailing(SkipLeading(str))

\* One line of the lister's output: whether it is longer than max_line_bytes,
\* its text, and the file at the path the text names.
Line(long, text, file) == [long |-> long, text |-> text, file |-> file]

TextA == << "l", " ", "=", ">", " ", "a", "/", "x", "\n" >>
TextB == << "=", ">", "\t", "b", "/", "x", " ", "\n" >>

LineValues ==
  { Line(TRUE,  <<"x">>, Missing),
    Line(FALSE, << "=", " ", ">", "a", "/", "x", "\n" >>, X64),
    Line(FALSE, << "l", " ", "=", ">", " ", "\n" >>, X64),
    Line(FALSE, TextA, NotElf),
    Line(FALSE, TextA, X64),
    Line(FALSE, TextA, I386),
    Line(FALSE, TextA, A64),
    Line(FALSE, TextB, X64) }

RECURSIVE SeqsUpTo(_, _)
SeqsUpTo(S, n) ==
  IF n = 0 THEN { <<>> }
  ELSE LET R == SeqsUpTo(S, n - 1)
       IN  R \cup { Append(r, x) : r \in { q \in R : Len(q) = n - 1 }, x \in S }

\* The single call inside extend_ld_library_path that fails, if any.
LdFaults == { "none", "strprintf", "popen", "strdup_dir", "push_dir",
              "push_interp", "push_segment", "push_parsed", "malloc_combined",
              "setenv" }

\* The comparison of lib_id with self_id, on the class only.
same_abi_class_only(lib_id, self_id) == lib_id.elf_class = self_id.elf_class

\* The comparison of lib_id with self_id.
same_abi(lib_id, self_id) ==
  /\ lib_id.elf_class = self_id.elf_class
  /\ lib_id.machine = self_id.machine

\* The loop of collect_ldconfig_dirs over the lines not yet read.
\* st = [rc, dirs]: rc # 0 once the enumeration has failed.
RECURSIVE collect_lines(_, _, _, _)
collect_lines(lines, self_id, fault, st) ==
  IF lines = <<>> \/ st.rc # 0 THEN st
  ELSE
    LET l == Head(lines)
        arrow == strstr(l.text, <<"=", ">">>)
        path == IF arrow = 0 THEN <<>>
                ELSE trim_in_place(SubSeq(l.text, arrow + 2, Len(l.text)))
        lib_id == read_elf_id(l.file, ZeroId)
        dir == dirname(path)
        skip == \/ arrow = 0
                \/ path = <<>>
                \/ lib_id.rc # 0
                \/ ~same_abi(lib_id, self_id)
        next ==
          IF l.long THEN [rc |-> -1, dirs |-> st.dirs]
          ELSE IF skip THEN st
          ELSE IF fault = "strdup_dir" THEN [rc |-> -1, dirs |-> st.dirs]
          ELSE IF string_array_contains(st.dirs, dir) THEN st
          ELSE IF fault = "push_dir" THEN [rc |-> -1, dirs |-> st.dirs]
          ELSE [rc |-> 0, dirs |-> string_array_push(st.dirs, dir)]
    IN  collect_lines(Tail(lines), self_id, fault, next)

\* collect_ldconfig_dirs(&parsed): self is the file at /proc/self/exe.
collect_ldconfig_dirs(self, lines, fault) ==
  LET self_id == read_elf_id(self, ZeroId) IN
  IF self_id.rc # 0 THEN [rc |-> -1, dirs |-> <<>>]
  ELSE IF fault = "popen" THEN [rc |-> -1, dirs |-> <<>>]
  ELSE collect_lines(lines, self_id, fault, [rc |-> 0, dirs |-> <<>>])

-----------------------------------------------------------------------------
(* The linker-configuration parser (spec.md 4.3).  File names are sequences
   of characters; all files are in one directory. *)

\* The lines of a configuration file after comments and white space are
\* stripped: a search directory, an include of a path, an include of a
\* pattern prefix*suffix, a blank line, a line longer than the maximum.
DirLine(d) == [kind |-> "dir", path |-> d, prefix |-> <<>>, suffix |-> <<>>]
IncludeLine(p) == [kind |-> "include", path |-> p, prefix |-> <<>>, suffix |-> <<>>]
GlobLine(pre, suf) == [kind |-> "glob", path |-> <<>>, prefix |-> pre, suffix |-> suf]
BlankLine == [kind |-> "blank", path |-> <<>>, prefix |-> <<>>, suffix |-> <<>>]
LongLine == [kind |-> "long", path |-> <<>>, prefix |-> <<>>, suffix |-> <<>>]

\* The directory: two regular files, a symbolic link to the first, and a
\* name that does not exist.
FileA == <<"a">>
FileB == <<"b">>
LinkToA == <<"l">>
NoFile == <<"x">>
RegularFiles == {FileA, FileB}

\* Canonicalization of a path: symbolic links resolved; the literal path
\* when it fails.
Canon(p) == IF p = LinkToA THEN FileA ELSE p

\* Wildcard match of prefix*suffix.
GlobMatch(prefix, suffix, name) ==
  /\ Len(name) >= Len(prefix) + Len(suffix)
  /\ SubSeq(name, 1, Len(prefix)) = prefix
  /\ SubSeq(name, Len(name) - Len(suffix) + 1, Len(name)) = suffix

CharRank(c) == IF c = "a" THEN 1 ELSE IF c = "b" THEN 2 ELSE 3

\* Lexicographic order of names.
RECURSIVE LexLess(_, _)
LexLess(x, y) ==
  IF y = <<>> THEN FALSE
  ELSE IF x = <<>> THEN TRUE
  ELSE IF Head(x) # Head(y) THEN CharRank(Head(x)) < CharRank(Head(y))
  ELSE LexLess(Tail(x), Tail(y))

RECURSIVE SortNames(_)
SortNames(S) ==
  IF S = {} THEN <<>>
  ELSE LET m == CHOOSE x \in S : \A y \in S \ {x} : LexLess(x, y)
       IN  <<m>> \o SortNames(S \ {m})

\* The regular files of the directory that match, sorted.
GlobFiles(prefix, suffix) ==
  SortNames({ n \in RegularFiles : GlobMatch(prefix, suffix, n) })

\* The stack of the recursion: a file about to be processed, or a file being
\* read with the lines still to come.
CallFrame(p) == [kind |-> "call", path |-> p, todo |-> <<>>]
ReadFrame(p, lines) == [kind |-> "read", path |-> p, todo |-> lines]

ConfLineValues ==
  { DirLine(<<"d">>), IncludeLine(FileA), IncludeLine(FileB), IncludeLine(LinkToA),
    IncludeLine(NoFile), GlobLine(<<>>, <<>>), GlobLine(<<"b">>, <<>>),
    BlankLine, LongLine }

\* The contents FileB is explored with: FileA takes every sequence of up to
\* MaxDirectives lines.
FileBValues ==
  { <<>>, << IncludeLine(FileA) >>, << IncludeLine(FileB) >>,
    << DirLine(<<"e">>), IncludeLine(LinkToA) >>, << GlobLine(<<>>, <<>>) >>,
    << DirLine(<<"d">>), DirLine(<<"e">>) >>, << LongLine >> }

\* The parse of a top-level file: ConfigParseState {seen, collected}, the
\* files read so far in order (visits), and the recursion.
ConfStart(fs, top) ==
  [fs |-> fs, stack |-> << CallFrame(top) >>, seen |-> {}, visits |-> <<>>,
   collected |-> <<>>, state |-> "running"]

\* conf where no configuration is parsed.
NoConf ==
  [fs |-> <<>>, stack |-> <<>>, seen |-> {}, visits |-> <<>>,
   collected |-> <<>>, state |-> "none"]

-----------------------------------------------------------------------------
(* extend_ld_library_path *)

\* The segment loop leaving after its first iteration.
push_segments_first_only(entries, cursor) ==
  LET colon == strchr(cursor, ":")
      len == IF colon # 0 THEN colon - 1 ELSE Len(cursor)
  IN  IF len > 0 THEN string_array_push(entries, SubSeq(cursor, 1, len)) ELSE entries

\* The loop over the ':'-separated segments of the existing value.
RECURSIVE push_segments(_, _)
push_segments(entries, cursor) ==
  LET colon == strchr(cursor, ":")
      len == IF colon # 0 THEN colon - 1 ELSE Len(cursor)
      pushed == IF len > 0
                  THEN string_array_push(entries, SubSeq(cursor, 1, len))
                  ELSE entries
  IN  IF colon = 0 THEN pushed
      ELSE push_segments(pushed, SubSeq(cursor, colon + 1, Len(cursor)))

\* The loop over parsed.items.
RECURSIVE push_parsed(_, _)
push_parsed(entries, parsed) ==
  IF parsed = <<>> THEN entries
  ELSE push_parsed(IF string_array_contains(entries, Head(parsed))
                     THEN entries
                     ELSE string_array_push(entries, Head(parsed)),
                   Tail(parsed))

\* The two loops that compute total and fill combined.
RECURSIVE join(_)
join(entries) ==
  IF entries = <<>> THEN <<>>
  ELSE IF Len(entries) = 1 THEN entries[1]
  ELSE entries[1] \o <<":">> \o join(Tail(entries))

\* The entries array where total is computed (at "merged"), or where the
\* function left earlier: at "cleanup" or at the "return" after a failed
\* collect_ldconfig_dirs.
ld_entries(interp_dir, self, lines, env_ld, fault) ==
  LET e1 == IF interp_dir.set THEN string_array_push(<<>>, interp_dir.val) ELSE <<>>
      c  == collect_ldconfig_dirs(self, lines, fault)
      e2 == IF env_ld.set /\ env_ld.val # <<>> THEN push_segments(e1, env_ld.val) ELSE e1
      e3 == push_parsed(e2, c.dirs)
  IN  IF interp_dir.set /\ fault = "push_interp" THEN [at |-> "cleanup", entries |-> <<>>]
      ELSE IF c.rc # 0 THEN [at |-> "return", entries |-> e1]
      ELSE IF fault = "push_segment" /\ Len(e2) > Len(e1) THEN [at |-> "cleanup", entries |-> e1]
      ELSE IF fault = "push_parsed" /\ Len(e3) > Len(e2) THEN [at |-> "cleanup", entries |-> e2]
      ELSE [at |-> "merged", entries |-> e3]

\* extend_ld_library_path without the test of total.
ld_run_no_total_test(interp_dir, self, lines, env_ld, fault) ==
  LET m == ld_entries(interp_dir, self, lines, env_ld, fault)
      combined == join(m.entries)
      called == m.at = "merged" /\ fault # "malloc_combined"
  IN  [at |-> m.at, entries |-> m.entries,
       parsed |-> collect_ldconfig_dirs(self, lines, fault),
       self_id |-> read_elf_id(self, ZeroId),
       lib_ids |-> [i \in 1..Len(lines) |-> read_elf_id(lines[i].file, ZeroId)],
       setenv |-> IF called THEN Some(combined) ELSE Null,
       ok |-> fault # "setenv"]

\* What extend_ld_library_path does: where it leaves (at), the entries
\* array there, what collect_ldconfig_dirs returns and leaves in parsed, what
\* read_elf_id leaves for /proc/self/exe and for the file of each line, the
\* value passed to setenv (Null when setenv is not called) and whether
\* setenv succeeds.
ld_run(interp_dir, self, lines, env_ld, fault) ==
  LET m == ld_entries(interp_dir, self, lines, env_ld, fault)
      combined == join(m.entries)
      total == Len(combined)
      called == m.at = "merged" /\ total # 0 /\ fault # "malloc_combined"
  IN  [at |-> m.at, entries |-> m.entries,
       parsed |-> collect_ldconfig_dirs(self, lines, fault),
       self_id |-> read_elf_id(self, ZeroId),
       lib_ids |-> [i \in 1..Len(lines) |-> read_elf_id(lines[i].file, ZeroId)],
       setenv |-> IF called THEN Some(combined) ELSE Null,
       ok |-> fault # "setenv"]

\* getenv("LD_LIBRARY_PATH") when extend_ld_library_path returns.
extend_ld_library_path(interp_dir, self, lines, env_ld, fault) ==
  LET r == ld_run(interp_dir, self, lines, env_ld, fault)
  IN  IF r.setenv.set /\ r.ok THEN r.setenv ELSE env_ld

-----------------------------------------------------------------------------
(* Paths *)

\* The characters of a path, joined into one string.
RECURSIVE Flat(_)
Flat(s) == IF s = <<>> THEN "" ELSE Head(s) \o Flat(Tail(s))

\* What realpath("/proc/self/exe") resolves to when it succeeds.
RealExe == <<"/", "bundle", "/", "app", "/", "AppRun">>

\* dirname(realpath("/proc/self/exe", appdir_buf)): realpath returns NULL
\* when it fails, and dirname(NULL) is ".".
main_appdir(resolved) ==
  IF resolved.set THEN Flat(dirname(resolved.val)) ELSE "."

\* The target of the <appdir>/entrypoint symlink.
EntrypointTarget == "/nix/store/app/bin/app"

\* The names the real root may hold, in the order readdir returns them.
RootOrder == << ".", "..", "etc", "nix", "init" >>

\* The test without its ".." case, and without its "nix" case.
ignored_no_dotdot(d_name) == d_name = "." \/ d_name = "nix"
ignored_no_nix(d_name) == d_name = "." \/ d_name = ".."

\* The entries child_main does not mirror.
ignored(d_name) == d_name = "." \/ d_name = ".." \/ d_name = "nix"

Distinct(q) == \A i, j \in 1..Len(q) : i # j => q[i] # q[j]

\* The elements of q at the positions in S, in the order of q.
RECURSIVE Pick(_, _)
Pick(q, S) ==
  IF q = <<>> THEN <<>>
  ELSE Pick(SubSeq(q, 1, Len(q) - 1), S)
         \o (IF Len(q) \in S THEN << q[Len(q)] >> ELSE <<>>)

Listings ==
  { Pick(RootOrder, S) : S \in { T \in SUBSET (1..Len(RootOrder)) : Cardinality(T) <= MaxRootEntries } }

CwdValues == { "/", "/home/user" }

\* The ids of the caller: root, an ordinary user in its own or another
\* group, and a user whose uid does not fit a signed int.
IdValues == { <<U32(0, 0), U32(0, 0)>>, <<U32(0, 1000), U32(0, 1000)>>,
              <<U32(0, 1000), U32(0, 100)>>, <<U32(65535, 65534), U32(0, 100)>> }

-----------------------------------------------------------------------------
(* What the launcher finds when it resolves the search path *)

\* interp: what find_entrypoint_interp_dir returns; self: the file at
\* /proc/self/exe; lines: the lister's output; fault: the failing call.
LdWorld(interp, self, lines, fault) ==
  [interp |-> interp, self |-> self, lines |-> lines, fault |-> fault]

InterpValues == { Null, Some(<<"a">>) }
SelfValues == { Missing, X64 }

Alphabet == { "a", "b", ":" }
EnvValues == { Null } \cup { Some(v) : v \in SeqsUpTo(Alphabet, MaxEnvLen) }

LdWorlds == { LdWorld(i, s, l, f) : i \in InterpValues, s \in SelfValues,
                                    l \in SeqsUpTo(LineValues, MaxLines), f \in LdFaults }

\* ldout before extend_ld_library_path has run.
NoLdOut ==
  [at |-> "", entries |-> <<>>, parsed |-> [rc |-> 0, dirs |-> <<>>],
   self_id |-> NoElfId, lib_ids |-> <<>>, setenv |-> Null, ok |-> TRUE]

\* The environments and worlds the whole bootstrap is explored with.
BootWorld(f) ==
  LdWorld(Some(<<"a">>), X64, << Line(FALSE, TextA, X64) >>, f)
BootWorlds ==
  { <<Null, BootWorld("none")>>, <<Null, BootWorld("strprintf")>>,
    <<Some(<<"b", ":", "a">>), BootWorld("none")>>,
    <<Some(<<"b", ":", "a">>), BootWorld("popen")>> }

-----------------------------------------------------------------------------
(* The launcher *)

Init ==
  /\ pc = "main"
  /\ exitStatus = NoStatus
  /\ appdir = ""
  /\ mountroot = ""
  /\ uid = U32(0, 0)
  /\ gid = U32(0, 0)
  /\ \E w \in BootWorlds : env = w[1] /\ ldin = w[2]
  /\ ldout = NoLdOut
  /\ conf = NoConf
  /\ env0 = env
  /\ rootEntries \in Listings
  /\ rootIdx = 0
  /\ rootdir = "unset"
  /\ procCwd \in CwdValues
  /\ procRoot = "/"
  /\ cwd = ""
  /\ exe = ""
  /\ clonens = {}
  /\ trace = <<>>

\* A step that makes the calls evs and ends in die_if(cond, ...) -> next.
Step(evs, d) == trace' = trace \o evs /\ Goto(d)

\* strprintf exits with EXIT_EXECERROR when malloc fails.
StrprintfFails == Step(<< Ev(58, "malloc", "", "strprintf", FALSE) >>, die_if(TRUE, "exited"))

\* main, up to the call of child_main.
Main ==
  /\ pc = "main"
  /\ \E resolved \in { Null, Some(RealExe) }, mem \in BOOLEAN :
       LET ev == Ev(693, "realpath", "/proc/self/exe", "", resolved.set)
           dir == main_appdir(resolved) IN
       /\ appdir' = dir
       /\ IF mem
            THEN /\ mountroot' = dir \o "/mountroot"
                 /\ Step(<<ev>>, die_if(FALSE, "getuid"))
            ELSE /\ mountroot' = mountroot
                 /\ Step(<<ev, Ev(58, "malloc", "", "strprintf", FALSE)>>, die_if(TRUE, "exited"))
  /\ UNCHANGED <<ldout, conf, uid, gid, env, env0, ldin, rootEntries, rootIdx, rootdir,
                 procCwd, procRoot, cwd, exe, clonens>>

\* uid_t uid = getuid(); gid_t gid = getgid();
GetIds ==
  /\ pc = "getuid"
  /\ \E id \in IdValues :
       /\ uid' = id[1]
       /\ gid' = id[2]
  /\ Step(<< Ev(559, "getuid", "", "", TRUE), Ev(560, "getgid", "", "", TRUE) >>,
          die_if(FALSE, "extend_ld"))
  /\ UNCHANGED <<ldout, conf, appdir, mountroot, env, env0, ldin, rootEntries, rootIdx, rootdir,
                 procCwd, procRoot, cwd, exe, clonens>>

\* extend_ld_library_path();
ExtendLd ==
  /\ pc = "extend_ld"
  /\ \/ /\ ldin.fault = "strprintf"
        /\ StrprintfFails
        /\ env' = env
        /\ ldout' = ldout
     \/ /\ ldin.fault # "strprintf"
        /\ ldout' = ld_run(ldin.interp, ldin.self, ldin.lines, env, ldin.fault)
        /\ env' = extend_ld_library_path(ldin.interp, ldin.self, ldin.lines, env, ldin.fault)
        /\ Step(<< Ev(562, "extend_ld_library_path", "", "", TRUE) >>, die_if(FALSE, "unshare"))
  /\ UNCHANGED <<conf, appdir, mountroot, uid, gid, env0, ldin, rootEntries, rootIdx,
                 rootdir, procCwd, procRoot, cwd, exe, clonens>>

Root == U32(0, 0)

\* The flags with CLONE_NEWUSER set for every caller.
unshare_flags_always_user(u) == {"CLONE_NEWNS", "CLONE_NEWUSER"}

\* int clonens = CLONE_NEWNS; if (uid != 0) clonens |= CLONE_NEWUSER;
unshare_flags(u) ==
  {"CLONE_NEWNS"} \cup (IF u # Root THEN {"CLONE_NEWUSER"} ELSE {})

\* child_main without the block that writes the id maps.
after_unshare_skip(u) == "mount_tmpfs"

\* Where child_main goes on after unshare: the id maps are written if (uid != 0).
after_unshare(u) == IF u # Root THEN "uid_map" ELSE "mount_tmpfs"

FlagsText(f) == IF "CLONE_NEWUSER" \in f THEN "CLONE_NEWNS|CLONE_NEWUSER" ELSE "CLONE_NEWNS"

\* die_if(unshare(clonens) < 0, "cannot unshare");
Unshare ==
  /\ pc = "unshare"
  /\ clonens' = unshare_flags(uid)
  /\ \E ok \in BOOLEAN :
       Step(<< Ev(571, "unshare", FlagsText(clonens'), "", ok) >>, die_if(~ok, after_unshare(uid)))
  /\ UNCHANGED <<ldout, conf, appdir, mountroot, uid, gid, env, env0, ldin, rootEntries, rootIdx,
                 rootdir, procCwd, procRoot, cwd, exe>>

\* The descriptors open() can return: failure, descriptor 0 (when the
\* launcher was started with stdin closed) and a descriptor above 0.
FdValues == { -1, 0, 3 }

\* write_to(path, fmt, ...), called at line: the calls it makes and its
\* return value, given the descriptor open returned and whether vdprintf
\* succeeded.
write_to(line, path, text, fd, written) ==
  [evs |-> << Ev(line, "open", "", path, fd >= 0) >>
           \o (IF fd > 0 THEN << Ev(line, "vdprintf", text, path, written) >> ELSE <<>>),
   rc  |-> IF fd > 0 /\ written THEN 0 ELSE 1]

\* die_if(write_to(path, ...), "cannot write ...");
WriteStep(line, path, text, next) ==
  \E fd \in FdValues, written \in BOOLEAN :
    LET w == write_to(line, path, text, fd, written) IN
    Step(w.evs, die_if(w.rc # 0, next))

\* The line child_main writes to /proc/self/uid_map.
uid_map_line(u, g) == MapLine(u, u)

\* The line child_main writes to /proc/self/gid_map.
gid_map_line(u, g) == MapLine(u, g)

WriteUidMap ==
  /\ pc = "uid_map"
  /\ WriteStep(581, "/proc/self/uid_map", uid_map_line(uid, gid), "setgroups")
  /\ UNCHANGED <<ldout, conf, appdir, mountroot, uid, gid, env, env0, ldin, rootEntries, rootIdx,
                 rootdir, procCwd, procRoot, cwd, exe, clonens>>

WriteSetgroups ==
  /\ pc = "setgroups"
  /\ WriteStep(588, "/proc/self/setgroups", "deny", "gid_map")
  /\ UNCHANGED <<ldout, conf, appdir, mountroot, uid, gid, env, env0, ldin, rootEntries, rootIdx,
                 rootdir, procCwd, procRoot, cwd, exe, clonens>>

WriteGidMap ==
  /\ pc = "gid_map"
  /\ WriteStep(589, "/proc/self/gid_map", gid_map_line(uid, gid), "mount_tmpfs")
  /\ UNCHANGED <<ldout, conf, appdir, mountroot, uid, gid, env, env0, ldin, rootEntries, rootIdx,
                 rootdir, procCwd, procRoot, cwd, exe, clonens>>

\* die_if(mount("tmpfs", mountroot, "tmpfs", 0, 0) < 0, ...);
MountTmpfs ==
  /\ pc = "mount_tmpfs"
  /\ \E ok \in BOOLEAN :
       Step(<< Ev(596, "mount tmpfs", "tmpfs", mountroot, ok) >>, die_if(~ok, "mount_unbindable"))
  /\ UNCHANGED <<ldout, conf, appdir, mountroot, uid, gid, env, env0, ldin, rootEntries, rootIdx,
                 rootdir, procCwd, procRoot, cwd, exe, clonens>>

\* die_if(mount(mountroot, mountroot, "none", MS_UNBINDABLE, 0) < 0, ...);
MountUnbindable ==
  /\ pc = "mount_unbindable"
  /\ \E ok \in BOOLEAN :
       Step(<< Ev(600, "mount MS_UNBINDABLE", mountroot, mountroot, ok) >>, die_if(~ok, "opendir"))
  /\ UNCHANGED <<ldout, conf, appdir, mountroot, uid, gid, env, env0, ldin, rootEntries, rootIdx,
                 rootdir, procCwd, procRoot, cwd, exe, clonens>>

\* DIR *rootdir = opendir("/");  The result is not checked.
OpenRoot ==
  /\ pc = "opendir"
  /\ \E ok \in BOOLEAN :
       /\ rootdir' = IF ok THEN "open" ELSE "NULL"
       /\ Step(<< Ev(604, "opendir", "", "/", ok) >>, die_if(FALSE, "readdir"))
  /\ UNCHANGED <<ldout, conf, appdir, mountroot, uid, gid, env, env0, ldin, rootEntries, rootIdx,
                 procCwd, procRoot, cwd, exe, clonens>>

\* A file that mkdir or creat has made.
Exists(path) ==
  \E i \in 1..Len(trace) : trace[i].op \in {"mkdir", "creat"} /\ trace[i].dst = path /\ trace[i].ok

\* The body of the loop for one entry that is not ignored: the calls it
\* makes and whether it ends in exit.  st is what stat finds ("fail", "dir"
\* or "file"), made whether the placeholder could be created and mounted
\* whether the bind mount succeeded.
mirror_entry(d_name, st, made, mounted) ==
  LET from == "/" \o d_name
      to == mountroot \o "/" \o d_name
      bind(line) == Ev(line, "mount MS_BIND|MS_REC", from, to, mounted)
  IN  IF st = "fail" THEN
        [evs |-> << Ev(623, "stat", "", from, FALSE) >>, die |-> FALSE]
      ELSE IF st = "dir" THEN
        [evs |-> << Ev(623, "stat", "", from, TRUE), Ev(627, "mkdir", from, to, made) >>
                 \o (IF made THEN <<bind(628)>> ELSE <<>>),
         die |-> ~made]
      ELSE
        [evs |-> << Ev(623, "stat", "", from, TRUE), Ev(634, "creat", from, to, made) >>
                 \o (IF made THEN <<bind(639)>> ELSE <<>>),
         die |-> FALSE]

\* One evaluation of the loop condition (rootentry = readdir(rootdir)) and,
\* when it returns an entry, one run of the loop body.
Populate ==
  /\ pc = "readdir"
  /\ \/ \* readdir(NULL) is undefined: the process is killed by a signal, or
        \* the call returns NULL and the loop ends.
        /\ rootdir = "NULL"
        /\ \/ /\ pc' = "crashed"
              /\ exitStatus' = exitStatus
              /\ trace' = Append(trace, Ev(606, "readdir", "", "NULL", FALSE))
           \/ Step(<< Ev(606, "readdir", "", "NULL", FALSE) >>, die_if(FALSE, "mkdir_nix"))
        /\ rootIdx' = rootIdx
     \/ \* the end of the directory
        /\ rootdir = "open"
        /\ rootIdx = Len(rootEntries)
        /\ Step(<< Ev(606, "readdir", "", "", FALSE) >>, die_if(FALSE, "mkdir_nix"))
        /\ rootIdx' = rootIdx
     \/ /\ rootdir = "open"
        /\ rootIdx < Len(rootEntries)
        /\ rootIdx' = rootIdx + 1
        /\ LET d_name == rootEntries[rootIdx + 1]
               rd == Ev(606, "readdir", "", d_name, TRUE) IN
           IF ignored(d_name)
             THEN Step(<<rd>>, die_if(FALSE, "readdir"))
             ELSE \/ Step(<<rd, Ev(58, "malloc", "", "strprintf", FALSE)>>, die_if(TRUE, "exited"))
                  \/ \E st \in {"fail", "dir", "file"}, made \in BOOLEAN, mounted \in BOOLEAN :
                       LET m == mirror_entry(d_name, st,
                                             made /\ ~Exists(mountroot \o "/" \o d_name),
                                             mounted) IN
                       Step(<<rd>> \o m.evs, die_if(m.die, "readdir"))
  /\ UNCHANGED <<ldout, conf, appdir, mountroot, uid, gid, env, env0, ldin, rootEntries,
                 rootdir, procCwd, procRoot, cwd, exe, clonens>>

\* nix_from, nix_to; die_if(mkdir(nix_to, 0777) < 0, "mkdir %s", nix_to);
MkdirNix ==
  /\ pc = "mkdir_nix"
  /\ \/ StrprintfFails
     \/ \E ok \in BOOLEAN :
          LET nix_to == mountroot \o "/nix"
              made == ok /\ ~Exists(nix_to) IN
          Step(<< Ev(655, "mkdir", "", nix_to, made) >>, die_if(~made, "mount_nix"))
  /\ UNCHANGED <<ldout, conf, appdir, mountroot, uid, gid, env, env0, ldin, rootEntries, rootIdx,
                 rootdir, procCwd, procRoot, cwd, exe, clonens>>

\* die_if(mount(nix_from, nix_to, "none", MS_BIND | MS_REC, 0) < 0, ...);
MountNix ==
  /\ pc = "mount_nix"
  /\ \E ok \in BOOLEAN :
       Step(<< Ev(656, "mount MS_BIND|MS_REC", appdir \o "/nix", mountroot \o "/nix", ok) >>,
            die_if(~ok, "getcwd"))
  /\ UNCHANGED <<ldout, conf, appdir, mountroot, uid, gid, env, env0, ldin, rootEntries, rootIdx,
                 rootdir, procCwd, procRoot, cwd, exe, clonens>>

\* die_if(!getcwd(cwd, PATH_MAX), "cannot getcwd");
GetCwd ==
  /\ pc = "getcwd"
  /\ \E ok \in BOOLEAN :
       /\ cwd' = IF ok THEN procCwd ELSE cwd
       /\ Step(<< Ev(666, "getcwd", "", cwd', ok) >>, die_if(~ok, "chroot"))
  /\ UNCHANGED <<ldout, conf, appdir, mountroot, uid, gid, env, env0, ldin, rootEntries, rootIdx,
                 rootdir, procCwd, procRoot, exe, clonens>>

\* die_if(chroot(mountroot) < 0, "cannot chroot %s", mountroot);
Chroot ==
  /\ pc = "chroot"
  /\ \E ok \in BOOLEAN :
       /\ procRoot' = IF ok THEN mountroot ELSE procRoot
       /\ Step(<< Ev(669, "chroot", "", mountroot, ok) >>, die_if(~ok, "chdir"))
  /\ UNCHANGED <<ldout, conf, appdir, mountroot, uid, gid, env, env0, ldin, rootEntries, rootIdx,
                 rootdir, procCwd, cwd, exe, clonens>>

\* chdir("/") in place of chdir(cwd).
chdir_target_root == "/"

\* The directory child_main changes to after the chroot.
chdir_target == cwd

\* die_if(chdir(cwd) < 0, "cannot chdir %s", cwd);
ChdirBack ==
  /\ pc = "chdir"
  /\ \E ok \in BOOLEAN :
       /\ procCwd' = IF ok THEN chdir_target ELSE procCwd
       /\ Step(<< Ev(672, "chdir", "", chdir_target, ok) >>, die_if(~ok, "readlink"))
  /\ UNCHANGED <<ldout, conf, appdir, mountroot, uid, gid, env, env0, ldin, rootEntries, rootIdx,
                 rootdir, procRoot, cwd, exe, clonens>>

\* entrypoint = strprintf("%s/entrypoint", appdir); readlink; die_if(exe_size < 0, ...);
ReadlinkEntrypoint ==
  /\ pc = "readlink"
  /\ \/ StrprintfFails /\ exe' = exe
     \/ \E ok \in BOOLEAN :
          /\ exe' = IF ok THEN EntrypointTarget ELSE exe
          /\ Step(<< Ev(679, "readlink", "", appdir \o "/entrypoint", ok) >>, die_if(~ok, "execv"))
  /\ UNCHANGED <<ldout, conf, appdir, mountroot, uid, gid, env, env0, ldin, rootEntries, rootIdx,
                 rootdir, procCwd, procRoot, cwd, clonens>>

\* execv(exe, argv); die_if(true, "cannot exec %s", exe);
Execv ==
  /\ pc = "execv"
  /\ \/ /\ pc' = "execed"
        /\ exitStatus' = exitStatus
        /\ trace' = Append(trace, Ev(684, "execv", "argv", exe, TRUE))
     \/ Step(<< Ev(684, "execv", "argv", exe, FALSE) >>, die_if(TRUE, "exited"))
  /\ UNCHANGED <<ldout, conf, appdir, mountroot, uid, gid, env, env0, ldin, rootEntries, rootIdx,
                 rootdir, procCwd, procRoot, cwd, exe, clonens>>

Next ==
  \/ Main
  \/ GetIds
  \/ ExtendLd
  \/ Unshare
  \/ WriteUidMap
  \/ WriteSetgroups
  \/ WriteGidMap
  \/ MountTmpfs
  \/ MountUnbindable
  \/ OpenRoot
  \/ Populate
  \/ MkdirNix
  \/ MountNix
  \/ GetCwd
  \/ Chroot
  \/ ChdirBack
  \/ ReadlinkEntrypoint
  \/ Execv

Spec == Init /\ [][Next]_vars

\* The launcher at the call of extend_ld_library_path, for every
\* environment and every world within the bounds.
InitLd ==
  /\ pc = "extend_ld"
  /\ exitStatus = NoStatus
  /\ appdir = "/bundle/app"
  /\ mountroot = "/bundle/app/mountroot"
  /\ uid = U32(0, 1000)
  /\ gid = U32(0, 1000)
  /\ env \in EnvValues
  /\ env0 = env
  /\ ldin \in LdWorlds
  /\ ldout = NoLdOut
  /\ conf = NoConf
  /\ rootEntries = <<>>
  /\ rootIdx = 0
  /\ rootdir = "unset"
  /\ procCwd = "/"
  /\ procRoot = "/"
  /\ cwd = ""
  /\ exe = ""
  /\ clonens = {}
  /\ trace = << Ev(693, "realpath", "/proc/self/exe", "", TRUE),
                Ev(559, "getuid", "", "", TRUE), Ev(560, "getgid", "", "", TRUE) >>

NextLd == ExtendLd

\* read_elf_id alone, over every file of ElfFiles as /proc/self/exe and as
\* the library of a line.
ElfWorlds ==
  { LdWorld(Null, self, << Line(FALSE, TextA, lib) >>, f) :
      self \in ElfFiles, lib \in {X64, I386, Trunc64}, f \in {"none", "strprintf"} }
  \cup
  { LdWorld(Null, self, << Line(FALSE, TextA, lib) >>, "none") :
      self \in {X64, I386}, lib \in ElfFiles }

InitElf ==
  /\ pc = "extend_ld"
  /\ exitStatus = NoStatus
  /\ appdir = "/bundle/app"
  /\ mountroot = "/bundle/app/mountroot"
  /\ uid = U32(0, 1000)
  /\ gid = U32(0, 1000)
  /\ env = Null
  /\ env0 = env
  /\ ldin \in ElfWorlds
  /\ ldout = NoLdOut
  /\ conf = NoConf
  /\ rootEntries = <<>>
  /\ rootIdx = 0
  /\ rootdir = "unset"
  /\ procCwd = "/"
  /\ procRoot = "/"
  /\ cwd = ""
  /\ exe = ""
  /\ clonens = {}
  /\ trace = << Ev(693, "realpath", "/proc/self/exe", "", TRUE),
                Ev(559, "getuid", "", "", TRUE), Ev(560, "getgid", "", "", TRUE) >>

SpecElf == InitElf /\ [][NextLd]_vars

SpecLd == InitLd /\ [][NextLd]_vars

-----------------------------------------------------------------------------
(* The steps of the linker-configuration parser (spec.md 4.3) *)

boot == <<pc, exitStatus, appdir, mountroot, uid, gid, env, env0, ldin, ldout,
          rootEntries, rootIdx, rootdir, procCwd, procRoot, cwd, exe, clonens, trace>>

\* "Any I/O failure anywhere in the recursion is fatal to the whole parse
\* ... discarding partial collected results".
ConfFail == [conf EXCEPT !.stack = <<>>, !.collected = <<>>, !.state = "failed"]

\* The cycle guard that lets every file through.
already_seen_never(c) == FALSE

\* "If this canonical path is already in seen"
already_seen(c) == c \in conf.seen

ConfTop == Head(conf.stack)
ConfRunning == conf.state = "running" /\ conf.stack # <<>>
ConfCalling == ConfRunning /\ ConfTop.kind = "call"
ConfReading(kind) ==
  /\ ConfRunning
  /\ ConfTop.kind = "read"
  /\ ConfTop.todo # <<>>
  /\ Head(ConfTop.todo).kind = kind

\* The stack with the first line of the file on top consumed.
ConfRest == << ReadFrame(ConfTop.path, Tail(ConfTop.todo)) >> \o Tail(conf.stack)

\* A file whose canonical path is in seen is skipped.
ConfSkip ==
  /\ ConfCalling
  /\ already_seen(Canon(ConfTop.path))
  /\ conf' = [conf EXCEPT !.stack = Tail(conf.stack)]
  /\ UNCHANGED boot

\* A new file is added to seen, opened and read.
ConfOpen ==
  /\ ConfCalling
  /\ ~already_seen(Canon(ConfTop.path))
  /\ Canon(ConfTop.path) \in DOMAIN conf.fs
  /\ LET c == Canon(ConfTop.path) IN
     conf' = [conf EXCEPT !.seen = @ \cup {c},
                          !.visits = Append(@, c),
                          !.stack = << ReadFrame(c, conf.fs[c]) >> \o Tail(conf.stack)]
  /\ UNCHANGED boot

\* A new file that cannot be opened fails the parse.
ConfOpenFail ==
  /\ ConfCalling
  /\ ~already_seen(Canon(ConfTop.path))
  /\ Canon(ConfTop.path) \notin DOMAIN conf.fs
  /\ conf' = [ConfFail EXCEPT !.seen = @ \cup {Canon(ConfTop.path)}]
  /\ UNCHANGED boot

\* A search directory is added to collected.
ConfDir ==
  /\ ConfReading("dir")
  /\ LET d == Head(ConfTop.todo).path IN
     conf' = [conf EXCEPT !.collected = IF string_array_contains(@, d) THEN @
                                        ELSE Append(@, d),
                          !.stack = ConfRest]
  /\ UNCHANGED boot

ConfBlank ==
  /\ ConfReading("blank")
  /\ conf' = [conf EXCEPT !.stack = ConfRest]
  /\ UNCHANGED boot

\* include of a path without a wildcard: recurse directly.
ConfInclude ==
  /\ ConfReading("include")
  /\ conf' = [conf EXCEPT !.stack = << CallFrame(Head(ConfTop.todo).path) >> \o ConfRest]
  /\ UNCHANGED boot

\* include of a pattern: recurse into the sorted matches in order.
ConfGlob ==
  /\ ConfReading("glob")
  /\ LET l == Head(ConfTop.todo)
         files == GlobFiles(l.prefix, l.suffix)
     IN  conf' = [conf EXCEPT !.stack = [i \in 1..Len(files) |-> CallFrame(files[i])] \o ConfRest]
  /\ UNCHANGED boot

\* A line longer than the maximum fails the parse.
ConfLong ==
  /\ ConfReading("long")
  /\ conf' = ConfFail
  /\ UNCHANGED boot

\* End of file: back to the including file.
ConfReturn ==
  /\ ConfRunning
  /\ ConfTop.kind = "read"
  /\ ConfTop.todo = <<>>
  /\ conf' = [conf EXCEPT !.stack = Tail(conf.stack)]
  /\ UNCHANGED boot

\* The top-level file is finished.
ConfDone ==
  /\ conf.state = "running"
  /\ conf.stack = <<>>
  /\ conf' = [conf EXCEPT !.state = "done"]
  /\ UNCHANGED boot

NextConf ==
  \/ ConfSkip
  \/ ConfOpen
  \/ ConfOpenFail
  \/ ConfDir
  \/ ConfBlank
  \/ ConfInclude
  \/ ConfGlob
  \/ ConfLong
  \/ ConfReturn
  \/ ConfDone

InitConf ==
  /\ pc = "extend_ld"
  /\ exitStatus = NoStatus
  /\ appdir = "/bundle/app"
  /\ mountroot = "/bundle/app/mountroot"
  /\ uid = U32(0, 1000)
  /\ gid = U32(0, 1000)
  /\ env = Null
  /\ env0 = env
  /\ ldin = LdWorld(Null, X64, <<>>, "none")
  /\ ldout = NoLdOut
  /\ \E a \in SeqsUpTo(ConfLineValues, MaxDirectives), b \in FileBValues :
       conf = ConfStart((FileA :> a) @@ (FileB :> b), FileA)
  /\ rootEntries = <<>>
  /\ rootIdx = 0
  /\ rootdir = "unset"
  /\ procCwd = "/"
  /\ procRoot = "/"
  /\ cwd = ""
  /\ exe = ""
  /\ clonens = {}
  /\ trace = << Ev(693, "realpath", "/proc/self/exe", "", TRUE),
                Ev(559, "getuid", "", "", TRUE), Ev(560, "getgid", "", "", TRUE) >>

\* The parser runs to its end once started: every step is taken when it can
\* be.
SpecConf == InitConf /\ [][NextConf]_vars /\ WF_vars(NextConf)

TypeOK ==
  /\ pc \in {"main", "getuid", "extend_ld", "unshare", "uid_map", "setgroups",
             "gid_map", "mount_tmpfs", "mount_unbindable", "opendir", "readdir",
             "mkdir_nix", "mount_nix", "getcwd", "chroot", "chdir", "readlink",
             "execv", "execed", "exited", "crashed"}
  /\ exitStatus \in {NoStatus, {EXIT_EXECERROR}}
  /\ rootIdx \in 0..Len(rootEntries)

-----------------------------------------------------------------------------
(* Reading the trace *)

NixFrom == appdir \o "/nix"
NixTo == mountroot \o "/nix"

Last(q) == q[Len(q)]

\* The call e has been made.
In(e) == \E i \in 1..Len(trace) : trace[i] = e

\* Where in the trace it was made (for a call that was made).
Pos(e) == CHOOSE i \in 1..Len(trace) : trace[i] = e

\* Line l has made a call; line l has made the call op, and it succeeded.
Made(l) == \E i \in 1..Len(trace) : trace[i].line = l
Ok(l, op) == \E i \in 1..Len(trace) : trace[i].line = l /\ trace[i].op = op /\ trace[i].ok

\* The lines of the loop over the real root, of the three id-map writes,
\* and of the calls whose failure is passed to die_if outside the loop.
LoopLines == 606..639
MapLines == {581, 588, 589}
FatalLines == {571, 581, 588, 589, 596, 600, 655, 656, 666, 669, 672, 679, 684}

\* The process has exited and e was its last call.
ExitedAt(i) == i = Len(trace) /\ pc = "exited" /\ exitStatus = {EXIT_EXECERROR}

-----------------------------------------------------------------------------
(* Claims *)

\* C1: the bootstrap steps occur in one fixed order, none reordered or
\* repeated: capture uid/gid, resolve the search path, unshare, identity
\* mapping (only with a user namespace), tmpfs mount, unbindable re-mount,
\* root population, store-tree mkdir and mount, getcwd, chroot, chdir,
\* readlink, exec; and exec is reached only after every fatal step succeeded.
C1_StrictOrder ==
  /\ \A i \in 1..(Len(trace) - 1) :
       LET a == trace[i]
           b == trace[i + 1]
       IN  \/ a.line = 693
           \/ b.op = "malloc"
           \/ a.line < b.line
           \/ a.line \in LoopLines /\ b.line \in LoopLines
           \/ a.line = b.line /\ a.line \in MapLines /\ a.op = "open" /\ b.op = "vdprintf"
  /\ (\E l \in MapLines : Made(l)) => (Ok(571, "unshare") /\ "CLONE_NEWUSER" \in clonens)
  /\ pc = "execed" =>
       /\ \A l \in {559, 560, 562, 604, 606} \cup (FatalLines \ MapLines) : Made(l)
       /\ \A i \in 1..Len(trace) : trace[i].line \in FatalLines => trace[i].ok
       /\ "CLONE_NEWUSER" \in clonens => \A l \in MapLines : Ok(l, "vdprintf")
       /\ "CLONE_NEWUSER" \in clonens <=> uid # Root

C1_Witness ==
  /\ pc = "execed"
  /\ uid # Root
  /\ \E i \in 1..Len(trace) : trace[i].line = 628 /\ trace[i].ok

\* The order of the three writes: "deny" is written to setgroups after
\* the uid_map write and before the gid_map write, and gid_map is not
\* touched after a failed setgroups write.
C2_WriteOrder ==
  /\ \A i \in 1..Len(trace) :
       (trace[i].line = 588 /\ trace[i].op = "vdprintf") =>
         /\ trace[i].src = "deny"
         /\ trace[i].dst = "/proc/self/setgroups"
         /\ \E h \in 1..(i - 1) :
              /\ trace[h].line = 581 /\ trace[h].op = "vdprintf"
              /\ trace[h].dst = "/proc/self/uid_map"
         /\ \A j \in 1..i : trace[j].line # 589
  /\ \A i \in 1..Len(trace) :
       trace[i].line = 589 =>
         /\ trace[i].dst = "/proc/self/gid_map"
         /\ Ok(588, "vdprintf")

\* C2: for a non-root caller with uid U the text written to uid_map is
\* "U U 1\n"; "deny" is written to setgroups after the uid_map write and
\* before the gid_map write; gid_map is not touched after a failed
\* setgroups write.
C2_UidMapText ==
  /\ \A i \in 1..Len(trace) :
       (trace[i].line = 581 /\ trace[i].op = "vdprintf") =>
         trace[i].src = FormatU(uid) \o " " \o FormatU(uid) \o " 1\n"
  /\ C2_WriteOrder

\* C3: unshare always asks for a mount namespace, and for a user namespace
\* exactly when the captured uid is not 0; the three id-map writes are made
\* exactly when a user namespace was asked for.
C3_NamespacesAndMaps ==
  /\ Made(571) =>
       /\ "CLONE_NEWNS" \in clonens
       /\ "CLONE_NEWUSER" \in clonens <=> uid # Root
       /\ \A i \in 1..Len(trace) :
            trace[i].line = 571 => trace[i].src = FlagsText(clonens)
  /\ (\E l \in MapLines : Made(l)) => "CLONE_NEWUSER" \in clonens
  /\ (Made(596) /\ "CLONE_NEWUSER" \in clonens) => \A l \in MapLines : Ok(l, "vdprintf")
  /\ (Made(596) /\ uid = Root) => \A l \in MapLines : ~Made(l)

C3_Witness ==
  /\ pc = "execed"
  /\ uid = Root
  /\ clonens = {"CLONE_NEWNS"}

\* The calls the loop body made for the entry name.
EntryEvs(name) ==
  { i \in 1..Len(trace) :
      /\ trace[i].line \in LoopLines
      /\ \/ trace[i].op = "stat" /\ trace[i].dst = "/" \o name
         \/ trace[i].op # "stat" /\ trace[i].src = "/" \o name }

StatOf(name) == { i \in EntryEvs(name) : trace[i].op = "stat" }
PlaceholderOf(name) == { i \in EntryEvs(name) : trace[i].op \in {"mkdir", "creat"} }
BindOf(name) == { i \in EntryEvs(name) : trace[i].op = "mount MS_BIND|MS_REC" }

\* The entries readdir has returned and the loop body has finished with.
Handled ==
  { i \in 1..rootIdx : ~(i = rootIdx /\ pc = "exited" /\ Last(trace).line \in {58, 627}) }

C5_PopulationBestEffort ==
  \A i \in 1..Len(trace) :
    (trace[i].line \in LoopLines /\ ~trace[i].ok
       /\ trace[i].op \in {"stat", "mkdir", "creat", "mount MS_BIND|MS_REC"}) =>
      (pc # "exited" \/ i < Len(trace))

\* C6: when chroot is called, <mountroot>/nix has been created and
\* <appdir>/nix bind-mounted onto it; the host's nix entry is never
\* mirrored; a failed mkdir or mount of the store tree exits with 127 and
\* chroot is not called.
C6_StoreTreeMounted ==
  /\ Made(669) =>
       /\ In(Ev(655, "mkdir", "", NixTo, TRUE))
       /\ In(Ev(656, "mount MS_BIND|MS_REC", NixFrom, NixTo, TRUE))
       /\ Pos(Ev(655, "mkdir", "", NixTo, TRUE))
            < Pos(Ev(656, "mount MS_BIND|MS_REC", NixFrom, NixTo, TRUE))
       /\ \A k \in 1..Len(trace) :
            trace[k].line = 669 =>
              Pos(Ev(656, "mount MS_BIND|MS_REC", NixFrom, NixTo, TRUE)) < k
  /\ \A i \in 1..Len(trace) :
       /\ trace[i].src # "/nix"
       /\ trace[i].op = "stat" => trace[i].dst # "/nix"
       /\ trace[i].line \in LoopLines => trace[i].dst # NixTo
  /\ \A i \in 1..Len(trace) :
       (trace[i].line \in {655, 656} /\ ~trace[i].ok) => (ExitedAt(i) /\ ~Made(669))

C6_Witness ==
  /\ Ok(669, "chroot")
  /\ In(Ev(606, "readdir", "", "nix", TRUE))

\* C7: a failed fatal step ends the process at once with status 127:
\* nothing is called after it, nothing is unmounted, exec is not attempted.
C7_FatalExits ==
  /\ \A i \in 1..Len(trace) :
       (trace[i].line \in FatalLines /\ ~trace[i].ok) => ExitedAt(i)
  /\ \A i \in 1..Len(trace) :
       \* write_to fails without a failed call when open returns descriptor 0
       (trace[i].line \in MapLines /\ trace[i].op = "open"
          /\ ~(i < Len(trace) /\ trace[i + 1].op = "vdprintf")) => ExitedAt(i)
  /\ pc = "exited" =>
       /\ exitStatus = {EXIT_EXECERROR}
       /\ \/ ~Last(trace).ok
          \/ Last(trace).line \in MapLines /\ Last(trace).op = "open"
       /\ ~Ok(684, "execv")
  /\ \A i \in 1..Len(trace) :
       trace[i].op \notin {"umount", "umount2", "rmdir", "unlink"}

C7_Witness ==
  /\ pc = "exited"
  /\ Last(trace) = Ev(669, "chroot", "", mountroot, FALSE)
  /\ ~Made(672)
  /\ Ok(596, "mount tmpfs")

\* C8: every run ends in exec of the entrypoint target or in exit status
\* 127, whichever call fails.
C8_ExecOrExit127 ==
  pc \in {"execed", "exited", "crashed"} =>
    \/ pc = "execed" /\ Last(trace) = Ev(684, "execv", "argv", EntrypointTarget, TRUE)
    \/ pc = "exited" /\ exitStatus = {EXIT_EXECERROR}

\* C9: the working directory is recorded before chroot, and when exec is
\* reached the process has changed, after the chroot into mountroot, to
\* exactly the recorded string; a failed getcwd, chroot or chdir prevents exec.
C9_CwdRestored ==
  /\ Made(669) =>
       /\ In(Ev(666, "getcwd", "", cwd, TRUE))
       /\ \A k \in 1..Len(trace) :
            trace[k].line = 669 => Pos(Ev(666, "getcwd", "", cwd, TRUE)) < k
  /\ pc = "execed" =>
       /\ In(Ev(669, "chroot", "", mountroot, TRUE))
       /\ In(Ev(672, "chdir", "", cwd, TRUE))
       /\ Pos(Ev(669, "chroot", "", mountroot, TRUE)) < Pos(Ev(672, "chdir", "", cwd, TRUE))
       /\ procCwd = cwd
       /\ procRoot = mountroot
  /\ \A i \in 1..Len(trace) :
       (trace[i].line \in {666, 669, 672} /\ ~trace[i].ok) => ~Made(684)

C9_Witness ==
  /\ pc = "execed"
  /\ cwd = "/home/user"
  /\ procCwd = "/home/user"
  /\ procRoot = mountroot

\* The ':'-separated entries of a search path.
RECURSIVE Split(_)
Split(s) ==
  LET colon == strchr(s, ":") IN
  IF colon = 0 THEN <<s>>
  ELSE <<SubSeq(s, 1, colon - 1)>> \o Split(SubSeq(s, colon + 1, Len(s)))

\* extend_ld_library_path has set LD_LIBRARY_PATH.
Published == pc = "unshare" /\ env # env0

\* C10: the value extend_ld_library_path publishes contains no entry twice.
C10_NoDuplicateEntry == Published => Distinct(Split(env.val))

-----------------------------------------------------------------------------
(* The search path, stated from the launch environment and the lister's
   output *)

\* The non-empty ':'-separated segments of an environment value.
Segments(v) == IF v.set THEN SelectSeq(Split(v.val), LAMBDA x : x # <<>>) ELSE <<>>

\* q without the later occurrences of its elements.
RECURSIVE Dedup(_)
Dedup(q) ==
  IF q = <<>> THEN <<>>
  ELSE LET front == Dedup(SubSeq(q, 1, Len(q) - 1))
           last == q[Len(q)]
       IN  IF \E i \in 1..Len(front) : front[i] = last THEN front
           ELSE Append(front, last)

\* p is q with some elements left out.
RECURSIVE IsSubseq(_, _)
IsSubseq(p, q) ==
  IF p = <<>> THEN TRUE
  ELSE IF q = <<>> THEN FALSE
  ELSE IF Head(p) = Head(q) THEN IsSubseq(Tail(p), Tail(q))
  ELSE IsSubseq(p, Tail(q))

\* The text of a line after its first "=>", without the white space around
\* it; <<>> when the line has no "=>".
Candidate(text) ==
  LET arrows == { k \in 1..(Len(text) - 1) : text[k] = "=" /\ text[k + 1] = ">" }
      first == CHOOSE k \in arrows : \A j \in arrows : k <= j
      rest == SubSeq(text, first + 2, Len(text))
      black == { k \in 1..Len(rest) : rest[k] \notin {" ", "\t", "\n", "\r", "\f"} }
      lo == CHOOSE k \in black : \A j \in black : k <= j
      hi == CHOOSE k \in black : \A j \in black : j <= k
  IN  IF arrows = {} \/ black = {} THEN <<>> ELSE SubSeq(rest, lo, hi)

\* The header of the file is whole: its identity can be read.
Readable(f) ==
  /\ f.open /\ f.magic /\ f.seek
  /\ \/ f.class = ELFCLASS32 /\ f.size >= SizeofElf32Ehdr
     \/ f.class = ELFCLASS64 /\ f.size >= SizeofElf64Ehdr

\* The line names a library of the class and machine of /proc/self/exe.
Qualifies(l) ==
  /\ Candidate(l.text) # <<>>
  /\ Readable(l.file)
  /\ l.file.class = ldin.self.class
  /\ l.file.machine = ldin.self.machine

\* The directories of the qualifying lines, in the order of the lines.
Discovered ==
  LET q == SelectSeq(ldin.lines, Qualifies)
  IN  Dedup([i \in 1..Len(q) |-> dirname(Candidate(q[i].text))])

\* The interpreter directory as a list of at most one entry.
InterpEntry == IF ldin.interp.set THEN <<ldin.interp.val>> ELSE <<>>

\* extend_ld_library_path has returned.
LdDone == pc = "unshare"

\* C11: the value extend_ld_library_path publishes is the interpreter
\* directory, the non-empty segments of the launch LD_LIBRARY_PATH and the
\* discovered directories, in that order, each kept at its first occurrence
\* only, joined by ':'.
C11_PublishedIsDedupedMerge ==
  (LdDone /\ ldout.setenv.set /\ ldout.ok) =>
     env = Some(join(Dedup(InterpEntry \o Segments(env0) \o Discovered)))

\* C12: whatever path extend_ld_library_path takes, the non-empty segments of
\* the launch LD_LIBRARY_PATH are all in the value left in the environment,
\* in their order.
C12_SegmentsKept == pc # "extend_ld" => IsSubseq(Segments(env0), Segments(env))

C12_Witness ==
  /\ LdDone
  /\ Len(Segments(env0)) >= 2
  /\ ldout.setenv.set
  /\ env # env0

\* The merged result is empty: no interpreter directory, no non-empty segment
\* and no directory from the lister.
EmptyMerge ==
  /\ ~ldin.interp.set
  /\ Segments(env0) = <<>>
  /\ ldout.parsed.dirs = <<>>

\* C13: when the merged result is empty, setenv is not called and
\* LD_LIBRARY_PATH is as it was at launch: an unset variable stays unset.
C13_EmptyMergeNoSetenv ==
  (LdDone /\ EmptyMerge) => (~ldout.setenv.set /\ env = env0)

C13_Witness ==
  /\ LdDone
  /\ EmptyMerge
  /\ ldout.at = "merged"
  /\ ldin.fault = "none"
  /\ ldin.lines # <<>>
  /\ env = Null

\* C14: when collect_ldconfig_dirs fails, the launcher still goes on to
\* unshare, and the interpreter directory and the segments of the launch
\* LD_LIBRARY_PATH are all in the LD_LIBRARY_PATH it goes on with.
C14_EnumerationFailureSoft ==
  (pc # "extend_ld" /\ ldout.parsed.rc # 0 /\ ldin.fault \in {"none", "popen", "strdup_dir", "push_dir"}) =>
     /\ pc = "unshare"
     /\ \A i \in 1..Len(InterpEntry \o Segments(env0)) :
          \E j \in 1..Len(Segments(env)) :
            Segments(env)[j] = (InterpEntry \o Segments(env0))[i]

\* C18: the string arrays of extend_ld_library_path hold no string twice.
C18_ArraysUnique ==
  LdDone => (Distinct(ldout.entries) /\ Distinct(ldout.parsed.dirs))

\* collect_ldconfig_dirs has run to the end of the lister's output or to a
\* line that is too long: no call of it has been made to fail.
CollectRuns ==
  /\ LdDone
  /\ ldin.fault \in {"none", "push_segment", "push_parsed", "malloc_combined", "setenv"}
  /\ ~(ldin.interp.set /\ ldin.fault = "push_interp")
  /\ Readable(ldin.self)

\* C15: collect_ldconfig_dirs fails when a line of the lister is longer than
\* max_line_bytes; otherwise it leaves the directory of a line's candidate
\* exactly for the lines that have "=>", a non-empty trimmed text after it
\* and a readable ELF file of the class and machine of /proc/self/exe, each
\* directory once, in the order of first discovery.
C15_DirsOfMatchingLines ==
  CollectRuns =>
    IF \E i \in 1..Len(ldin.lines) : ldin.lines[i].long
      THEN ldout.parsed.rc # 0
      ELSE ldout.parsed.rc = 0 /\ ldout.parsed.dirs = Discovered

C15_Witness ==
  /\ CollectRuns
  /\ Len(ldin.lines) = 2
  /\ ldout.parsed.rc = 0
  /\ Len(ldout.parsed.dirs) = 1
  /\ \E i \in 1..2 : ldin.lines[i].file = A64

\* What the claim says read_elf_id(file, &id) leaves in id = {0}.
ReadAsClaimed(file, id) ==
  IF Readable(file)
    THEN id = [rc |-> 0, elf_class |-> file.class, machine |-> file.machine]
    ELSE id.rc # 0 /\ id.elf_class = 0 /\ id.machine = 0

\* C16: read_elf_id fails and leaves *out as it was for a file that cannot
\* be opened, is shorter than the identification prefix, lacks the magic,
\* has a class byte other than 32-bit and 64-bit, or is shorter than the
\* header of its class; otherwise it succeeds and sets both fields.
C16_ElfIdAllOrNothing ==
  LdDone =>
    /\ ReadAsClaimed(ldin.self, ldout.self_id)
    /\ \A i \in 1..Len(ldin.lines) : ReadAsClaimed(ldin.lines[i].file, ldout.lib_ids[i])

C16_Witness ==
  /\ LdDone
  /\ ldin.self.class = ELFCLASS32
  /\ ldout.self_id = ElfId(ELFCLASS32, 3)
  /\ ldin.lines[1].file = Trunc64
  /\ ldout.lib_ids[1] = NoElfId

\* C19: for a non-root caller with uid U and gid G the text written to
\* gid_map is "G G 1\n".
C19_GidMapText ==
  \A i \in 1..Len(trace) :
    (trace[i].line = 589 /\ trace[i].op = "vdprintf") =>
      trace[i].src = FormatU(gid) \o " " \o FormatU(gid) \o " 1\n"

\* C20: when realpath("/proc/self/exe") fails, main exits with 127 and
\* child_main is not entered; child_main is entered only with appdir the
\* directory of the resolved executable.
C20_ExeResolvedOrExit ==
  /\ (pc # "main" /\ In(Ev(693, "realpath", "/proc/self/exe", "", FALSE))) =>
       /\ pc = "exited"
       /\ exitStatus = {EXIT_EXECERROR}
       /\ ~Made(559)
  /\ Made(559) => appdir = Flat(dirname(RealExe))

\* The file includes the path by a line without wildcard.
Includes(file, p) ==
  \E i \in 1..Len(conf.fs[file]) : conf.fs[file][i] = IncludeLine(p)

\* C17: the parser never reads the same canonical file twice, and it ends,
\* whatever cycles the include lines make.
C17_NoRevisitAndTerminates ==
  /\ [](Distinct(conf.visits))
  /\ <>(conf.state \in {"done", "failed"})

C17_Witness ==
  /\ conf.state = "done"
  /\ Includes(FileA, FileB)
  /\ Includes(FileB, FileA)
  /\ conf.visits = << FileA, FileB >>

====
